---- MODULE Spec2Model ----
(***************************************************************************)
(* wheel-stub: a PEP 517 build backend that (a) at install time resolves   *)
(* and downloads a compatible wheel from a remote index (wheel.py) and     *)
(* (b) at release time repackages a wheel's METADATA into a reproducible   *)
(* sdist (sdist.py).                                                       *)
(*                                                                         *)
(* Python str values whose characters the code inspects (interpreter and   *)
(* ABI tags, SOURCE_DATE_EPOCH) are sequences of one-character strings, so *)
(* startswith, slicing and int() are computed rather than assumed.         *)
(***************************************************************************)
EXTENDS Integers, Sequences, FiniteSets, TLC

----------------------------------------------------------------------------
(* Bounds of the model *)

\* newest interpreter minor version a modelled system runs
MaxMinor == 11
\* longest index listing handed to get_compatible_wheel
MaxWheels == 2
\* most tags one wheel filename expands to (compressed tag sets)
MaxTagsPerWheel == 2
\* most optional headers (beyond Name/Version/License) in a METADATA file
MaxExtra == 2

\* buildapi.py refuses to import below Python 3.8
MinMinor == 8

----------------------------------------------------------------------------
(* Python str helpers *)

Digit == {"0", "1", "2", "3", "4", "5", "6", "7", "8", "9"}

DigitVal(c) ==
  CASE c = "0" -> 0 [] c = "1" -> 1 [] c = "2" -> 2 [] c = "3" -> 3
    [] c = "4" -> 4 [] c = "5" -> 5 [] c = "6" -> 6 [] c = "7" -> 7
    [] c = "8" -> 8 [] c = "9" -> 9

DigitChr(d) ==
  CASE d = 0 -> "0" [] d = 1 -> "1" [] d = 2 -> "2" [] d = 3 -> "3"
    [] d = 4 -> "4" [] d = 5 -> "5" [] d = 6 -> "6" [] d = 7 -> "7"
    [] d = 8 -> "8" [] d = 9 -> "9"

\* int(s) returns a value (rather than raising ValueError) for a non-empty
\* run of decimal digits; every other text the model draws makes it raise.
IsInt(s) == Len(s) > 0 /\ \A i \in 1..Len(s) : s[i] \in Digit

RECURSIVE IntVal(_)
IntVal(s) ==
  IF s = <<>> THEN 0
  ELSE 10 * IntVal(SubSeq(s, 1, Len(s) - 1)) + DigitVal(s[Len(s)])

\* str(n) for n >= 0
RECURSIVE DecStr(_)
DecStr(n) ==
  IF n < 10 THEN <<DigitChr(n)>>
  ELSE DecStr(n \div 10) \o <<DigitChr(n % 10)>>

startswith(s, p) == Len(s) >= Len(p) /\ SubSeq(s, 1, Len(p)) = p

\* s[k:] with a 0-based start k
SliceFrom(s, k) == SubSeq(s, k + 1, Len(s))

----------------------------------------------------------------------------
(* Tags and systems *)

py3  == <<"p", "y", "3">>
cp3  == <<"c", "p", "3">>
none == <<"n", "o", "n", "e">>
abi3 == <<"a", "b", "i", "3">>

\* interpreter_name(): CPython or PyPy
InterpNames == {<<"c", "p">>, <<"p", "p">>}

\* f"{interp_name}{interp_version}" with interpreter_version() = "3" + minor
InterpTag(name, minor) == name \o <<"3">> \o DecStr(minor)

\* the execution environment of one resolution
Systems ==
  [ interp_name : InterpNames,
    minor       : MinMinor..MaxMinor,
    platforms   : {<<"linux">>, <<"win">>} ]

this_interp_tag_of(sys) == InterpTag(sys.interp_name, sys.minor)

\* system_tags = list(platform_tags()) + ["any"]
system_tags_of(sys) == sys.platforms \o <<"any">>

InSeq(x, s) == \E i \in 1..Len(s) : s[i] = x

\* minor versions a wheel on the index may have been built for
TagMinors == MinMinor..(MaxMinor + 1)

Interpreters ==
  {py3, cp3, cp3 \o <<"x">>}
    \cup {InterpTag(n, m) : n \in InterpNames, m \in TagMinors}

Abis ==
  {none, abi3, <<"c", "p", "2", "7", "m">>}
    \cup {InterpTag(n, m) : n \in InterpNames, m \in TagMinors}

Platforms == {"any", "linux", "win"}

Tags == [interpreter : Interpreters, abi : Abis, platform : Platforms]

\* is_compatible_tag ends by returning True or False, or by int() raising
\* ValueError out of it.  sys.version_info.minor is passed as `minor`.
is_compatible_tag_SameMinorRejected(tag, this_interp_tag, system_tags, minor) ==
  IF tag.abi = none THEN
    IF tag.interpreter \in {py3, this_interp_tag} THEN
      IF InSeq(tag.platform, system_tags) THEN "True" ELSE "False"
    ELSE "False"
  ELSE
    LET gate == IF InSeq(tag.platform, system_tags) THEN "True" ELSE "False" IN
    IF tag.abi = this_interp_tag THEN
      IF tag.interpreter # this_interp_tag THEN "False" ELSE gate
    ELSE IF tag.abi = abi3 THEN
      IF startswith(tag.interpreter, cp3) THEN
        IF ~IsInt(SliceFrom(tag.interpreter, 3)) THEN "ValueError"
        ELSE IF IntVal(SliceFrom(tag.interpreter, 3)) >= minor THEN "False"
        ELSE gate
      ELSE "False"
    ELSE "False"

is_compatible_tag(tag, this_interp_tag, system_tags, minor) ==
  IF tag.abi = none THEN
    IF tag.interpreter \in {py3, this_interp_tag} THEN
      IF InSeq(tag.platform, system_tags) THEN "True" ELSE "False"
    ELSE "False"
  ELSE
    LET gate == IF InSeq(tag.platform, system_tags) THEN "True" ELSE "False" IN
    IF tag.abi = this_interp_tag THEN
      IF tag.interpreter # this_interp_tag THEN "False" ELSE gate
    ELSE IF tag.abi = abi3 THEN
      LET wheel_interp == tag.interpreter IN
      IF startswith(wheel_interp, cp3) THEN
        LET interp_minor_version == SliceFrom(wheel_interp, 3) IN
        IF ~IsInt(interp_minor_version) THEN "ValueError"
        ELSE IF IntVal(interp_minor_version) > minor THEN "False"
        ELSE gate
      ELSE "False"
    ELSE "False"

----------------------------------------------------------------------------
(* Candidate selection *)

Versions == {"1.0", "2.0"}

NoHash == [scheme |-> "None", digest |-> "None"]

\* what get_compatible_wheel hands back: a (wheel_url, wheel_filename, hash)
\* tuple, the all-None tuple, or the exception that left it.  Anchors are
\* numbered from 1 in listing order; 0 stands for None.
Return(w) ==
  [kind |-> "return", wheel_url |-> w.wheel_url,
   wheel_filename |-> w.wheel_filename, hash |-> w.hash]

NoMatch ==
  [kind |-> "return", wheel_url |-> 0, wheel_filename |-> 0,
   hash |-> NoHash]

Raised(exc) ==
  [kind |-> exc, wheel_url |-> 0, wheel_filename |-> 0,
   hash |-> NoHash]

\* `for tag in tags` walks a frozenset, whose order is not fixed: the walk
\* ends at whichever tag that is not False comes up first, so each tag that
\* returns True or raises is a possible end of it.
RECURSIVE ScanWheels(_, _, _, _)
ScanWheels(wheel_files, version, sys, i) ==
  IF i > Len(wheel_files) THEN {NoMatch}
  ELSE
    LET w  == wheel_files[i]
        rs == { is_compatible_tag(t, this_interp_tag_of(sys),
                                  system_tags_of(sys), sys.minor) : t \in w.tags }
    IN  IF w.ver # version THEN ScanWheels(wheel_files, version, sys, i + 1)
        ELSE (IF "True" \in rs THEN {Return(w)} ELSE {})
               \cup (IF "ValueError" \in rs THEN {Raised("ValueError")} ELSE {})
               \cup (IF rs \subseteq {"False"}
                     THEN ScanWheels(wheel_files, version, sys, i + 1) ELSE {})

get_compatible_wheel(wheel_files, version, sys) ==
  ScanWheels(wheel_files, version, sys, 1)

----------------------------------------------------------------------------
(* State of the tag engine *)

VARIABLES
  sys,          \* the system the resolution runs on
  tag,          \* the tag handed to is_compatible_tag
  tag_result,   \* "pending", then what is_compatible_tag did
  wheel_files,  \* the parsed listing handed to get_compatible_wheel
  version,      \* the pinned version
  selected      \* Pending, then what get_compatible_wheel did

tagVars == <<sys, tag, tag_result, wheel_files, version, selected>>

Pending ==
  [kind |-> "pending", wheel_url |-> 0, wheel_filename |-> 0,
   hash |-> NoHash]

AnySystem == [interp_name |-> <<"c", "p">>, minor |-> MaxMinor, platforms |-> <<"linux">>]
AnyTag    == [interpreter |-> py3, abi |-> none, platform |-> "any"]

TagIdle ==
  /\ sys = AnySystem /\ tag = AnyTag /\ tag_result = "idle"
  /\ wheel_files = <<>> /\ version = "1.0" /\ selected = Pending

\* the tags wheels of the modelled listings carry
SelTags ==
  { [interpreter |-> py3, abi |-> none, platform |-> "any"],
    [interpreter |-> InterpTag(<<"c", "p">>, MaxMinor), abi |-> abi3, platform |-> "linux"],
    [interpreter |-> cp3, abi |-> abi3, platform |-> "any"],
    [interpreter |-> InterpTag(<<"c", "p">>, MaxMinor),
     abi |-> InterpTag(<<"c", "p">>, MaxMinor), platform |-> "win"] }

SelSystems ==
  { s \in Systems : s.interp_name = <<"c", "p">> /\ s.minor >= MaxMinor - 1 }

TagSets == { ts \in SUBSET SelTags : Cardinality(ts) \in 1..MaxTagsPerWheel }

\* the i-th anchor of a listing, after parse_wheel_filename
WheelAt(i, ver, ts) ==
  [wheel_url |-> i, wheel_filename |-> i, ver |-> ver, tags |-> ts,
   hash |-> IF i % 2 = 1 THEN [scheme |-> "sha256", digest |-> "d1"] ELSE NoHash]

WheelLists ==
  UNION { { [i \in 1..n |-> WheelAt(i, f[i][1], f[i][2])] :
            f \in [1..n -> Versions \X TagSets] } : n \in 0..MaxWheels }

----------------------------------------------------------------------------
(* The tag engine applied to one tag, and to one listing *)

CheckTag ==
  /\ tag_result = "pending"
  /\ tag_result' = is_compatible_tag(tag, this_interp_tag_of(sys),
                                     system_tags_of(sys), sys.minor)
  /\ UNCHANGED <<sys, tag, wheel_files, version, selected>>

SelectWheel ==
  /\ tag_result = "idle" /\ selected = Pending
  /\ selected' \in get_compatible_wheel(wheel_files, version, sys)
  /\ UNCHANGED <<sys, tag, tag_result, wheel_files, version>>

----------------------------------------------------------------------------
(* Install time: download_wheel, download_manual, urlopen_with_retry *)

\* urlopen_with_retry's default num_retries
num_retries == 4

\* how one urlopen call can end: a response, or an exception.  HTTPError is
\* urllib's subclass of URLError; TimeoutError stands for the OSErrors that
\* reach the caller unwrapped; ValueError is urlopen's "unknown url type".
FetchOutcomes == {"ok", "URLError", "HTTPError", "TimeoutError"}

\* the classes an exception is an instance of
Bases(exc) ==
  CASE exc = "HTTPError"          -> {"HTTPError", "URLError", "OSError", "Exception"}
    [] exc = "URLError"           -> {"URLError", "OSError", "Exception"}
    [] exc = "TimeoutError"       -> {"TimeoutError", "OSError", "Exception"}
    [] exc = "ValueError"         -> {"ValueError", "Exception"}
    [] exc = "RuntimeError"       -> {"RuntimeError", "Exception"}
    [] exc = "AssertionError"     -> {"AssertionError", "Exception"}
    [] exc = "KeyError"           -> {"KeyError", "Exception"}
    [] exc = "InstallFailedError" -> {"InstallFailedError", "RuntimeError", "Exception"}

\* `except cls:` handles exc
Catches(cls, exc) == cls \in Bases(exc)

\* one pass of urlopen_with_retry's loop body, given how urlopen ended:
\* "return" the response, "raise" the exception, or go on to "sleep"
urlopen_with_retry_step_GivesUpEarly(i, outcome) ==
  IF outcome = "ok" THEN "return"
  ELSE IF Catches("URLError", outcome) THEN
    IF i = num_retries - 1 THEN "raise" ELSE "sleep"
  ELSE "raise"

urlopen_with_retry_step(i, outcome) ==
  IF outcome = "ok" THEN "return"
  ELSE IF Catches("URLError", outcome) THEN
    IF i = num_retries THEN "raise" ELSE "sleep"
  ELSE "raise"

\* time.sleep's argument 1.2**i, in milliseconds
backoff(i) == (12 ^ i) * (10 ^ (3 - i))

\* hashlib constructors present on the interpreter
HashlibNames == {"md5", "sha256"}

\* the digest of a response body under any scheme
hexdigest(body) == IF body = "wheel" THEN "d1" ELSE "d2"

Bodies == {"wheel", "corrupt"}

Configs ==
  [ stub_only : {"absent", "true", "false"},
    index_url : {"absent", "http://index/"} ]

\* config.get("stub_only", None) in a condition
StubOnlyTruthy(cfg) == cfg.stub_only = "true"

\* the listings the index may serve, after WheelFilter and
\* parse_wheel_filename
Listings ==
  LET generic == [interpreter |-> py3, abi |-> none, platform |-> "any"]
      badabi3 == [interpreter |-> cp3, abi |-> abi3, platform |-> "any"]
  IN  { <<>>,
        <<WheelAt(1, "1.0", {generic})>>,
        <<WheelAt(1, "2.0", {generic}), WheelAt(2, "1.0", {generic})>>,
        <<WheelAt(1, "1.0", {badabi3}), WheelAt(2, "1.0", {generic})>>,
        <<[WheelAt(1, "1.0", {generic}) EXCEPT
             !.hash = [scheme |-> "sha999", digest |-> "d1"]]>> }

VARIABLES
  config,       \* [tool.wheel_stub] as download_wheel loaded it
  env_index,    \* whether WHEEL_STUB_PIP_INDEX_URL is set
  dl_pc,        \* where download_wheel stands
  fetch_i,      \* urlopen_with_retry's loop variable
  fetch_pc,     \* "try" before urlopen, "sleep" before time.sleep
  net,          \* urlopen calls and sleeps so far, in order
  body,         \* the body of the wheel response
  wheel_dir,    \* files written under wheel_directory
  dl_error      \* the exception that left download_wheel, with its context

dlVars == <<config, env_index, dl_pc, fetch_i, fetch_pc, net, body, wheel_dir, dl_error>>

NoError == [type |-> "None", context |-> "None"]

DlIdle ==
  /\ config = [stub_only |-> "absent", index_url |-> "absent"]
  /\ env_index = FALSE /\ dl_pc = "idle" /\ fetch_i = 0 /\ fetch_pc = "idle"
  /\ net = <<>> /\ body = "None" /\ wheel_dir = {} /\ dl_error = NoError

\* get_base_domain: the environment override wins over the config
get_base_domain(cfg, env) ==
  IF env THEN "http://override/"
  ELSE IF cfg.index_url = "absent" THEN "None" ELSE cfg.index_url

\* report_install_failure reads config["index_url"] and raises
\* InstallFailedError; exception_context is None or the exception caught
report_install_failure(cfg, exception_context) ==
  IF cfg.index_url = "absent"
  THEN [type |-> "KeyError", context |-> exception_context]
  ELSE [type |-> "InstallFailedError", context |-> exception_context]

\* an exception leaves download_manual: download_wheel's `except Exception`
\* hands it to report_install_failure
Fail(exc) ==
  /\ dl_pc' = "failed"
  /\ dl_error' = report_install_failure(config, exc)
  /\ fetch_pc' = "idle"

\* download_wheel up to the first urlopen
DownloadStart ==
  /\ dl_pc = "start"
  /\ IF StubOnlyTruthy(config)
     THEN /\ dl_pc' = "failed"
          /\ dl_error' = report_install_failure(config, "None")
          /\ UNCHANGED <<fetch_i, fetch_pc>>
     ELSE /\ dl_pc' = "fetch_listing"
          /\ fetch_i' = 1 /\ fetch_pc' = "try"
          /\ UNCHANGED dl_error
  /\ UNCHANGED <<tagVars, config, env_index, net, body, wheel_dir>>

\* what download_manual's `except HTTPError` makes of an exception raised
\* by urlopen_with_retry
download_manual_reraise(exc) ==
  IF Catches("HTTPError", exc) THEN "RuntimeError" ELSE exc

\* one urlopen inside urlopen_with_retry(project_url)
FetchListing ==
  /\ dl_pc = "fetch_listing" /\ fetch_pc = "try"
  /\ \E outcome \in (IF get_base_domain(config, env_index) = "None"
                     THEN {"ValueError"} ELSE FetchOutcomes) :
       /\ net' = Append(net, [ev |-> "urlopen", url |-> "project_url",
                              i |-> fetch_i, outcome |-> outcome,
                              delay |-> 0])
       /\ LET step == urlopen_with_retry_step(fetch_i, outcome) IN
          CASE step = "return" ->
                 \/ /\ \E l \in Listings : wheel_files' = l
                    /\ dl_pc' = "select" /\ fetch_pc' = "idle"
                    /\ UNCHANGED <<dl_error, fetch_i>>
                 \* parser.feed raised on a malformed anchor
                 \/ /\ Fail("ValueError")
                    /\ UNCHANGED <<wheel_files, fetch_i>>
            [] step = "sleep" ->
                 /\ fetch_pc' = "sleep"
                 /\ UNCHANGED <<wheel_files, dl_pc, dl_error, fetch_i>>
            [] step = "raise" ->
                 /\ Fail(download_manual_reraise(outcome))
                 /\ UNCHANGED <<wheel_files, fetch_i>>
  /\ UNCHANGED <<sys, tag, tag_result, version, selected,
                 config, env_index, body, wheel_dir>>

\* time.sleep(1.2**i), then the next pass of the loop
FetchSleep ==
  /\ dl_pc \in {"fetch_listing", "fetch_wheel"} /\ fetch_pc = "sleep"
  /\ net' = Append(net, [ev |-> "sleep", url |-> "None",
                         i |-> fetch_i, outcome |-> "None",
                         delay |-> backoff(fetch_i)])
  /\ fetch_i' = fetch_i + 1
  /\ fetch_pc' = "try"
  /\ UNCHANGED <<tagVars, config, env_index, dl_pc, body, wheel_dir, dl_error>>

\* get_compatible_wheel on the parsed listing, and the None check after it
SelectCandidate ==
  /\ dl_pc = "select"
  /\ \E out \in get_compatible_wheel(wheel_files, version, sys) :
       /\ selected' = out
       /\ IF out.kind # "return" THEN
            /\ Fail(out.kind) /\ UNCHANGED fetch_i
          ELSE IF out.wheel_url = 0 THEN
            /\ Fail("RuntimeError") /\ UNCHANGED fetch_i
          ELSE
            /\ dl_pc' = "fetch_wheel" /\ fetch_i' = 1 /\ fetch_pc' = "try"
            /\ UNCHANGED dl_error
  /\ UNCHANGED <<sys, tag, tag_result, wheel_files, version,
                 config, env_index, net, body, wheel_dir>>

\* one urlopen inside urlopen_with_retry(wheel_url)
FetchWheel ==
  /\ dl_pc = "fetch_wheel" /\ fetch_pc = "try"
  /\ \E outcome \in FetchOutcomes :
       /\ net' = Append(net, [ev |-> "urlopen", url |-> "wheel_url",
                              i |-> fetch_i, outcome |-> outcome,
                              delay |-> 0])
       /\ LET step == urlopen_with_retry_step(fetch_i, outcome) IN
          CASE step = "return" ->
                 /\ \E b \in Bodies : body' = b
                 /\ dl_pc' = "stream" /\ fetch_pc' = "idle"
                 /\ UNCHANGED <<dl_error, fetch_i>>
            [] step = "sleep" ->
                 /\ fetch_pc' = "sleep"
                 /\ UNCHANGED <<body, dl_pc, dl_error, fetch_i>>
            [] step = "raise" ->
                 /\ Fail(download_manual_reraise(outcome))
                 /\ UNCHANGED <<body, fetch_i>>
  /\ UNCHANGED <<tagVars, config, env_index, wheel_dir>>

\* the hash set-up, the chunked copy to wheel_directory / wheel_filename and
\* the digest assertion
StreamWheel ==
  /\ dl_pc = "stream"
  /\ LET scheme  == selected.hash.scheme
         hash    == selected.hash.digest
         hashing == scheme # "None" /\ hash # "None"
     IN  IF hashing /\ scheme \notin HashlibNames THEN
           /\ Fail("RuntimeError") /\ UNCHANGED wheel_dir
         ELSE
           /\ wheel_dir' = wheel_dir \cup
                             {[name |-> selected.wheel_filename, data |-> body]}
           /\ IF hashing /\ hexdigest(body) # hash
              THEN Fail("AssertionError")
              ELSE dl_pc' = "done" /\ fetch_pc' = "idle" /\ UNCHANGED dl_error
  /\ UNCHANGED <<tagVars, config, env_index, fetch_i, net, body>>

----------------------------------------------------------------------------
(* Release time: metadata documents *)

\* A METADATA file is a sequence of header lines <<key, value>>; a value is
\* a sequence of words.  The parsed document is the sequence of its headers
\* as [key, value] records, duplicates kept, in order.
parse_metadata(text) ==
  [i \in 1..Len(text) |-> [key |-> text[i][1], value |-> text[i][2]]]

\* str(parsed_metadata)
serialize(doc) == [i \in 1..Len(doc) |-> <<doc[i].key, doc[i].value>>]

\* `key in parsed`
Has(doc, key) == \E i \in 1..Len(doc) : doc[i].key = key

\* parsed.get_all(key): the values in order; <<>> with Has false is None
get_all(doc, key) ==
  LET F[i \in 0..Len(doc)] ==
        IF i = 0 THEN <<>>
        ELSE IF doc[i].key = key THEN Append(F[i - 1], doc[i].value)
        ELSE F[i - 1]
  IN  F[Len(doc)]

\* `del parsed[key]`: every header of that name goes, the rest keep their
\* order; no error when there is none
Del(doc, key) ==
  LET F[i \in 0..Len(doc)] ==
        IF i = 0 THEN <<>>
        ELSE IF doc[i].key = key THEN F[i - 1]
        ELSE Append(F[i - 1], doc[i])
  IN  F[Len(doc)]

\* `"@" in requires_dist`
HasAt(value) == \E i \in 1..Len(value) : value[i] = "@"

assert_valid_metadata_NoLicenseCheck(parsed) ==
  Has(parsed, "Name") /\ Has(parsed, "Version")

\* TRUE when no assert fails
assert_valid_metadata(parsed) ==
  Has(parsed, "Name") /\ Has(parsed, "Version") /\ Has(parsed, "License")

derive_stub_only_FirstOnly(parsed) ==
  LET requires_dists == get_all(parsed, "Requires-Dist") IN
  Len(requires_dists) > 0 /\ HasAt(requires_dists[1])

\* the loop over requires_dists: stub_only after it
derive_stub_only(parsed) ==
  LET requires_dists == get_all(parsed, "Requires-Dist") IN
  \E i \in 1..Len(requires_dists) : HasAt(requires_dists[i])

\* the loop over requires_dists: the document after it
strip_requires(parsed) ==
  IF derive_stub_only(parsed) THEN Del(parsed, "Requires-Dist") ELSE parsed

erase_platform_KeepSupported(parsed) == Del(parsed, "Platform")

\* "Make the sdist cross-platform"
erase_platform(parsed) == Del(Del(parsed, "Platform"), "Supported-Platform")

RequiredHeaders ==
  << <<"Name", <<"nx-cugraph">>>>, <<"Version", <<"1.0">>>>, <<"License", <<"MIT">>>> >>

ExtraHeaders ==
  { <<"Requires-Dist", <<"numpy">>>>,
    <<"Requires-Dist", <<"foo", "@", "http://example.com/foo.whl">>>>,
    <<"Platform", <<"linux">>>>,
    <<"Supported-Platform", <<"manylinux">>>> }

\* the subsequence of s at the positions in keep
Pick(s, keep) ==
  LET F[i \in 0..Len(s)] ==
        IF i = 0 THEN <<>>
        ELSE IF i \in keep THEN Append(F[i - 1], s[i]) ELSE F[i - 1]
  IN  F[Len(s)]

MetadataTexts ==
  { Pick(RequiredHeaders, keep) \o extra :
      keep \in SUBSET (1..3),
      extra \in UNION { [1..n -> ExtraHeaders] : n \in 0..MaxExtra } }

----------------------------------------------------------------------------
(* Release time: pyproject.toml *)

\* A pyproject.toml is a sequence of lines: a table header [a.b] or a
\* key = value pair whose key may be dotted.
Table(path)  == [kind |-> "table", path |-> path, val |-> "None"]
KV(key, val) == [kind |-> "kv", path |-> key, val |-> val]

IsPrefix(a, b) == Len(a) <= Len(b) /\ SubSeq(b, 1, Len(a)) = a

TomlStart == [cur |-> <<>>, explicit |-> {}, vals |-> {}, err |-> "None"]

\* tomllib on one line: a table declared twice, or a key or table that
\* overwrites a value, is a TOMLDecodeError
TomlLine(st, line) ==
  IF st.err # "None" THEN st
  ELSE IF line.kind = "table" THEN
    IF line.path \in st.explicit
         \/ \E v \in st.vals : IsPrefix(v.path, line.path)
    THEN [st EXCEPT !.err = "TOMLDecodeError"]
    ELSE [st EXCEPT !.explicit = @ \cup {line.path}, !.cur = line.path]
  ELSE
    LET full  == st.cur \o line.path
        conts == { st.cur \o SubSeq(line.path, 1, i) : i \in 1..(Len(line.path) - 1) }
    IN  IF \/ \E v \in st.vals : IsPrefix(v.path, full) \/ IsPrefix(full, v.path)
           \/ \E t \in st.explicit : IsPrefix(full, t)
        THEN [st EXCEPT !.err = "TOMLDecodeError"]
        ELSE [st EXCEPT !.vals = @ \cup {[path |-> full, val |-> line.val]},
                        !.explicit = @ \cup conts]

\* tomllib.load
tomllib_load(lines) ==
  LET F[i \in 0..Len(lines)] ==
        IF i = 0 THEN TomlStart ELSE TomlLine(F[i - 1], lines[i])
  IN  F[Len(lines)]

\* whether toml_dict[a][b] exists
TomlHas(toml, path) ==
  \/ \E t \in toml.explicit : IsPrefix(path, t)
  \/ \E v \in toml.vals : IsPrefix(path, v.path)

WheelStubPath == <<"tool", "wheel_stub">>

\* toml_dict["tool"]["wheel_stub"] as the set of its <<key, value>> items
WheelStubDict(toml) ==
  { <<v.path[3], v.val>> : v \in { u \in toml.vals :
      IsPrefix(WheelStubPath, u.path) /\ Len(u.path) = 3 } }

\* the attributes of a dict object
DictAttributes ==
  {"clear", "copy", "fromkeys", "get", "items", "keys", "pop", "popitem",
   "setdefault", "update", "values"}

\* hasattr(d, name) for a dict d: a lookup among the object's attributes,
\* not among its keys
hasattr_dict(d, name) == name \in DictAttributes

\* d[key] in a condition, for a key d holds
Truthy(d, key) == <<key, "true">> \in d

\* the RuntimeErrors of the two modules, by message
MissingSection == "RuntimeError: Missing [tool.wheel_stub] section in pyproject.toml"
ConflictingStub == "RuntimeError: Cannot set [tool.wheel_stub].stub_only to false"
UnsupportedFormat == "RuntimeError: Unsupported package format"

\* get_config_from_pyprojecttoml on the lines of a pyproject.toml: the
\* [tool.wheel_stub] dict, or the exception raised
get_config_from_pyprojecttoml(lines) ==
  LET toml == tomllib_load(lines) IN
  IF toml.err # "None" THEN [exc |-> toml.err, dict |-> {}]
  ELSE IF ~TomlHas(toml, WheelStubPath) THEN [exc |-> MissingSection, dict |-> {}]
  ELSE [exc |-> "None", dict |-> WheelStubDict(toml)]

\* b"\n[tool.wheel_stub]\nstub_only = true\n"
StubOnlySuffix == << Table(WheelStubPath), KV(<<"stub_only">>, "true") >>

BuildSystem ==
  << Table(<<"build-system">>), KV(<<"build-backend">>, "wheel_stub.buildapi") >>

IndexUrl == KV(<<"index_url">>, "http://index/")

Manifests ==
  { BuildSystem \o << Table(WheelStubPath), IndexUrl >>,
    BuildSystem \o << Table(WheelStubPath), IndexUrl, KV(<<"stub_only">>, "true") >>,
    BuildSystem \o << Table(WheelStubPath), IndexUrl, KV(<<"stub_only">>, "false") >>,
    BuildSystem,
    BuildSystem \o << Table(<<"tool", "other">>), KV(<<"x">>, "1") >>,
    BuildSystem \o << Table(<<"tool", "wheel_stub", "extra">>), KV(<<"x">>, "1") >>,
    BuildSystem \o << Table(<<"tool">>), KV(<<"wheel_stub", "index_url">>, "http://index/") >> }

----------------------------------------------------------------------------
(* Release time: archive entries *)

\* tarfile.TarInfo(name): the defaults of a fresh entry
TarInfo(name) ==
  [name |-> name, type |-> "REGTYPE", mode |-> 420, uid |-> 0, gid |-> 0,
   uname |-> "", gname |-> "", mtime |-> 0]

\* tar.gettarinfo on a regular file, from its stat
gettarinfo(name, st) ==
  [name |-> name, type |-> "REGTYPE", mode |-> st.mode, uid |-> st.uid,
   gid |-> st.gid, uname |-> st.uname, gname |-> st.gname, mtime |-> st.mtime]

\* mode & 0o100
OwnerExec(mode) == (mode \div 64) % 2 = 1

normalize_tarinfo_KeepMtime(tarinfo, mtime) ==
  [tarinfo EXCEPT
     !.uid = 0, !.gid = 0, !.uname = "", !.gname = "",
     !.mode = IF tarinfo.type = "DIRTYPE" THEN 509
              ELSE IF OwnerExec(tarinfo.mode) THEN 493 ELSE 420]

\* 509 = 0o775, 493 = 0o755, 420 = 0o644
normalize_tarinfo(tarinfo, mtime) ==
  [tarinfo EXCEPT
     !.uid = 0, !.gid = 0, !.uname = "", !.gname = "", !.mtime = mtime,
     !.mode = IF tarinfo.type = "DIRTYPE" THEN 509
              ELSE IF OwnerExec(tarinfo.mode) THEN 493 ELSE 420]

\* name.replace("-", "_") on a name given as its pieces
replace_underscore(name) ==
  [i \in 1..Len(name) |-> IF name[i] = "-" THEN "_" ELSE name[i]]

\* what stat() can say of the pyproject.toml in the working directory
\* (33188 = 0o100644, 33261 = 0o100755)
FileStats ==
  { [mode |-> m, uid |-> u, gid |-> u,
     uname |-> IF u = 0 THEN "root" ELSE "builder",
     gname |-> IF u = 0 THEN "root" ELSE "builder", mtime |-> t] :
      m \in {33188, 33261}, u \in {0, 1000}, t \in {1, 2} }

NoStat ==
  [mode |-> 0, uid |-> 0, gid |-> 0, uname |-> "", gname |-> "", mtime |-> 0]

\* the fixed date: April 5, 1993
DefaultMtime == 733993200

\* os.getenv("SOURCE_DATE_EPOCH"): unset, or its text
SourceDates ==
  { [set |-> FALSE, text |-> <<>>],
    [set |-> TRUE, text |-> <<"1", "7">>],
    [set |-> TRUE, text |-> <<"n", "o", "w">>] }

----------------------------------------------------------------------------
(* Release time: SDistBuilder.build, run twice over the same inputs *)

VARIABLES
  source_wheel,     \* "whl" or "tar.gz": how the source file's name ends
  metadata_bytes,   \* the wheel's METADATA
  pyproject_toml,   \* the lines of ./pyproject.toml
  source_date,      \* SOURCE_DATE_EPOCH
  run,              \* 1 for the first build, 2 for the second
  first,            \* what the first build left behind, once it is over
  file_stat,        \* stat of ./pyproject.toml as this build read it
  b_pc,             \* where build stands
  mtime,            \* the timestamp seed
  parsed_metadata,  \* the document being rewritten
  stub_only,        \* the derived flag
  tar,              \* the entries added to the archive so far
  gz,               \* the sdist file: "None" until opened, then its mtime
  pyproj_tarinfo,   \* the entry prepared for pyproject.toml
  wheel_stub_dict,  \* toml_dict["tool"]["wheel_stub"]
  b_error,          \* the exception that left build
  stderr            \* what build printed to sys.stderr

inputVars == <<source_wheel, metadata_bytes, pyproject_toml, source_date>>
runVars ==
  <<file_stat, b_pc, mtime, parsed_metadata, stub_only, tar, gz,
    pyproj_tarinfo, wheel_stub_dict, b_error, stderr>>
buildVars == <<inputVars, run, first, runVars>>

\* self.distribution and self.version, from the source file's name
distribution == <<"nx", "-", "cugraph">>
sdist_dir == <<replace_underscore(distribution), "1.0">>

NoBuild ==
  [tar |-> <<>>, gz |-> "None", error |-> "None", stderr |-> <<>>,
   stat |-> NoStat, pc |-> "None"]

RunFresh ==
  /\ file_stat = NoStat /\ b_pc = "start" /\ mtime = 0
  /\ parsed_metadata = <<>> /\ stub_only = FALSE /\ tar = <<>> /\ gz = "None"
  /\ pyproj_tarinfo = TarInfo(<<>>) /\ wheel_stub_dict = {}
  /\ b_error = "None" /\ stderr = <<>>

BuildIdle ==
  /\ source_wheel = "whl" /\ metadata_bytes = <<>> /\ pyproject_toml = <<>>
  /\ source_date = [set |-> FALSE, text |-> <<>>]
  /\ run = 0 /\ first = NoBuild
  /\ RunFresh

\* an exception leaves build through `finally: tar.close(); gz.close()`
Raise(exc) == b_pc' = "failed" /\ b_error' = exc

\* lines 80-94: the seed, then the gzip and tar writers
OpenArchive ==
  /\ b_pc = "start"
  /\ IF source_date.set /\ ~IsInt(source_date.text)
     THEN /\ Raise("ValueError") /\ UNCHANGED <<mtime, gz>>
     ELSE /\ mtime' = (IF source_date.set THEN IntVal(source_date.text)
                       ELSE DefaultMtime)
          /\ gz' = mtime'
          /\ b_pc' = "opened" /\ UNCHANGED b_error
  /\ UNCHANGED <<tagVars, dlVars, inputVars, run, first, file_stat,
                 parsed_metadata, stub_only, tar, pyproj_tarinfo,
                 wheel_stub_dict, stderr>>

\* lines 98-116: read METADATA out of the wheel, parse and validate it
ReadMetadata ==
  /\ b_pc = "opened"
  /\ IF source_wheel # "whl" THEN
       /\ Raise(UnsupportedFormat) /\ UNCHANGED <<parsed_metadata, stderr>>
     ELSE
       /\ parsed_metadata' = parse_metadata(metadata_bytes)
       /\ IF assert_valid_metadata(parsed_metadata')
          THEN b_pc' = "validated" /\ UNCHANGED <<b_error, stderr>>
          ELSE /\ stderr' = Append(stderr, metadata_bytes)
               /\ Raise("AssertionError")
  /\ UNCHANGED <<tagVars, dlVars, inputVars, run, first, file_stat, mtime,
                 stub_only, tar, gz, pyproj_tarinfo, wheel_stub_dict>>

\* lines 117-125: direct references make the sdist a stub
DeriveStubOnly ==
  /\ b_pc = "validated"
  /\ stub_only' = derive_stub_only(parsed_metadata)
  /\ parsed_metadata' = strip_requires(parsed_metadata)
  /\ b_pc' = "derived"
  /\ UNCHANGED <<tagVars, dlVars, inputVars, run, first, file_stat, mtime,
                 tar, gz, pyproj_tarinfo, wheel_stub_dict, b_error, stderr>>

\* lines 126-144: erase the platform headers, add the root directory and
\* PKG-INFO to the archive
AddPkgInfo ==
  /\ b_pc = "derived"
  /\ parsed_metadata' = erase_platform(parsed_metadata)
  /\ LET sdist_dir_tarinfo ==
           normalize_tarinfo([TarInfo(sdist_dir) EXCEPT !.type = "DIRTYPE"], mtime)
         pkg_info_tarinfo ==
           normalize_tarinfo(TarInfo(Append(sdist_dir, "PKG-INFO")), mtime)
     IN  tar' = tar \o << [info |-> sdist_dir_tarinfo, data |-> <<>>],
                          [info |-> pkg_info_tarinfo,
                           data |-> serialize(parsed_metadata')] >>
  /\ b_pc' = "pkg_info"
  /\ UNCHANGED <<tagVars, dlVars, inputVars, run, first, file_stat, mtime,
                 stub_only, gz, pyproj_tarinfo, wheel_stub_dict, b_error, stderr>>

\* lines 147-163: stat pyproject.toml, prepare its entry, load its
\* [tool.wheel_stub] table
LoadManifest ==
  /\ b_pc = "pkg_info"
  /\ \E st \in FileStats :
       /\ file_stat' = st
       /\ pyproj_tarinfo' =
            normalize_tarinfo(
              gettarinfo(Append(sdist_dir, "pyproject.toml"), st), mtime)
  /\ LET cfg == get_config_from_pyprojecttoml(pyproject_toml) IN
     IF cfg.exc # "None"
     THEN Raise(cfg.exc) /\ UNCHANGED wheel_stub_dict
     ELSE wheel_stub_dict' = cfg.dict /\ b_pc' = "loaded" /\ UNCHANGED b_error
  /\ UNCHANGED <<tagVars, dlVars, inputVars, run, first, mtime,
                 parsed_metadata, stub_only, tar, gz, stderr>>

\* lines 164-191: add pyproject.toml to the archive, as it is or with the
\* stub_only declaration appended
AddManifest ==
  /\ b_pc = "loaded"
  /\ IF stub_only THEN
       IF hasattr_dict(wheel_stub_dict, "stub_only") THEN
         IF Truthy(wheel_stub_dict, "stub_only") THEN
           /\ tar' = Append(tar, [info |-> pyproj_tarinfo, data |-> pyproject_toml])
           /\ b_pc' = "done"
           /\ UNCHANGED <<pyproj_tarinfo, b_error>>
         ELSE
           /\ Raise(ConflictingStub)
           /\ UNCHANGED <<tar, pyproj_tarinfo>>
       ELSE
         /\ pyproj_tarinfo' =
              normalize_tarinfo(TarInfo(Append(sdist_dir, "pyproject.toml")), mtime)
         /\ tar' = Append(tar, [info |-> pyproj_tarinfo',
                                data |-> pyproject_toml \o StubOnlySuffix])
         /\ b_pc' = "done"
         /\ UNCHANGED b_error
     ELSE
       /\ tar' = Append(tar, [info |-> pyproj_tarinfo, data |-> pyproject_toml])
       /\ b_pc' = "done"
       /\ UNCHANGED <<pyproj_tarinfo, b_error>>
  /\ UNCHANGED <<tagVars, dlVars, inputVars, run, first, file_stat, mtime,
                 parsed_metadata, stub_only, gz, wheel_stub_dict, stderr>>

\* the same build is started again on the same inputs
BuildAgain ==
  /\ run = 1 /\ b_pc \in {"done", "failed"}
  /\ first' = [tar |-> tar, gz |-> gz, error |-> b_error, stderr |-> stderr,
               stat |-> file_stat, pc |-> b_pc]
  /\ run' = 2
  /\ file_stat' = NoStat /\ b_pc' = "start" /\ mtime' = 0
  /\ parsed_metadata' = <<>> /\ stub_only' = FALSE /\ tar' = <<>> /\ gz' = "None"
  /\ pyproj_tarinfo' = TarInfo(<<>>) /\ wheel_stub_dict' = {}
  /\ b_error' = "None" /\ stderr' = <<>>
  /\ UNCHANGED <<tagVars, dlVars, inputVars>>

----------------------------------------------------------------------------
(* Install time: WheelFilter, the parser of the index listing *)

\* most start tags in one listing document
MaxAnchors == 2

\* s[:k]
SliceTo(s, k) == SubSeq(s, 1, IF k < Len(s) THEN k ELSE Len(s))

endswith(s, suffix) ==
  Len(s) >= Len(suffix) /\ SubSeq(s, Len(s) - Len(suffix) + 1, Len(s)) = suffix

\* the first position at or after k whose character is in chars, else
\* Len(s) + 1
Find(s, chars, k) ==
  IF \E i \in k..Len(s) : s[i] \in chars
  THEN CHOOSE i \in k..Len(s) :
         s[i] \in chars /\ \A j \in k..(i - 1) : s[j] \notin chars
  ELSE Len(s) + 1

\* s.split(sep): the pieces between the separators, in order
split(s, sep) ==
  LET F[i \in 0..Len(s)] ==
        IF i = 0 THEN << <<>> >>
        ELSE IF s[i] = sep THEN Append(F[i - 1], <<>>)
        ELSE [F[i - 1] EXCEPT ![Len(F[i - 1])] = Append(@, s[i])]
  IN  F[Len(s)]

\* urllib.parse.urlparse on a URL without ":", "?" or ";": the netloc after
\* a leading "//", the path up to the first "#", the fragment after it.  A
\* netloc with one square bracket and not the other is "Invalid IPv6 URL".
urlparse(url) ==
  LET has_netloc == Len(url) >= 2 /\ url[1] = "/" /\ url[2] = "/"
      delim      == IF has_netloc THEN Find(url, {"/", "#"}, 3) ELSE 1
      netloc     == IF has_netloc THEN SubSeq(url, 3, delim - 1) ELSE <<>>
      rest       == SubSeq(url, delim, Len(url))
      hash       == Find(rest, {"#"}, 1)
  IN  IF InSeq("[", netloc) # InSeq("]", netloc)
      THEN [exc |-> "ValueError", netloc |-> <<>>, path |-> <<>>,
            fragment |-> <<>>]
      ELSE [exc |-> "None", netloc |-> netloc,
            path |-> SubSeq(rest, 1, hash - 1),
            fragment |-> SubSeq(rest, hash + 1, Len(rest))]

\* os.path.basename: what follows the last "/"
basename(path) ==
  LET slashes == { i \in 1..Len(path) : path[i] = "/" }
      last    == IF slashes = {} THEN 0
                 ELSE CHOOSE i \in slashes : \A j \in slashes : j <= i
  IN  SubSeq(path, last + 1, Len(path))

\* the project page's URL: its scheme and host, and its directory
ProjectRoot == <<"/", "/", "i">>
ProjectDir  == <<"/", "p", "/">>
project_url == ProjectRoot \o ProjectDir

\* urllib.parse.urljoin(project_url, path) for a path without dot segments
urljoin(base, path) ==
  IF startswith(path, <<"/">>) THEN ProjectRoot \o path ELSE base \o path

\* (scheme, hash) of a wheel_files entry
NoHashHint == [none |-> TRUE, scheme |-> <<>>, hash |-> <<>>]

\* the body of handle_starttag's loop for one href value: skip it, append
\* an entry, or raise
handle_href(value) ==
  LET parsed == urlparse(value)
      hinted == SliceTo(parsed.fragment, 3)
                  \in {<<"m", "d", "5">>, <<"s", "h", "a">>}
      pieces == split(parsed.fragment, "=")
      skip   == [exc |-> "None", found |-> FALSE, wheel_url |-> <<>>,
                 wheel_filename |-> <<>>, hint |-> NoHashHint]
  IN  IF parsed.exc # "None" THEN [skip EXCEPT !.exc = parsed.exc]
      ELSE IF ~endswith(parsed.path, <<".", "w", "h", "l">>) THEN skip
      ELSE IF hinted /\ Len(pieces) # 2 THEN [skip EXCEPT !.exc = "ValueError"]
      ELSE [exc |-> "None", found |-> TRUE,
            wheel_url |-> IF parsed.netloc = <<>>
                          THEN urljoin(project_url, parsed.path) ELSE value,
            wheel_filename |-> basename(parsed.path),
            hint |-> IF hinted
                     THEN [none |-> FALSE, scheme |-> pieces[1], hash |-> pieces[2]]
                     ELSE NoHashHint]

Entry(found) ==
  [wheel_url |-> found.wheel_url, wheel_filename |-> found.wheel_filename,
   hint |-> found.hint]

\* handle_starttag: self.wheel_files after the call, and the exception that
\* ended it, if any
handle_starttag(start, files) ==
  LET F[i \in 0..Len(start.attrs)] ==
        IF i = 0 THEN [wheel_files |-> files, exc |-> "None"]
        ELSE LET attr == start.attrs[i]
                 sofar == F[i - 1]
                 found == handle_href(attr.value)
             IN  IF sofar.exc # "None" THEN sofar
                 ELSE IF attr.name # "href" \/ attr.none THEN sofar
                 ELSE IF found.exc # "None" THEN [sofar EXCEPT !.exc = found.exc]
                 ELSE IF ~found.found THEN sofar
                 ELSE [sofar EXCEPT !.wheel_files = Append(@, Entry(found))]
  IN  IF start.tag = "a" THEN F[Len(start.attrs)]
      ELSE [wheel_files |-> files, exc |-> "None"]

\* href values of the anchors an index page may carry
Whl == <<"a", ".", "w", "h", "l">>
Hrefs ==
  { Whl,
    Whl \o <<"#", "s", "h", "a", "=", "1">>,
    Whl \o <<"#", "s", "h", "a">>,
    Whl \o <<"#", "s", "h", "a", "=", "1", "=", "1">>,
    Whl \o <<"#", "e", "g", "g", "=", "1">>,
    <<"a", ".", "g", "z">>,
    <<"a", ".", "g", "z", "#", "s", "h", "a">>,
    <<"/", "d", "/">> \o Whl \o <<"#", "m", "d", "5", "=", "1">>,
    <<"/", "/", "h", "/">> \o Whl,
    <<"/", "/", "h", "/">> \o Whl \o <<"#", "s", "h", "a", "=", "1">>,
    <<"/", "/", "[", "/">> \o Whl }

Attr(name, value) == [name |-> name, none |-> FALSE, value |-> value]

\* the start tags HTMLParser.feed hands to handle_starttag
StartTags ==
  { [tag |-> "a", attrs |-> <<Attr("href", h)>>] : h \in Hrefs }
  \cup
  { [tag |-> "link", attrs |-> <<Attr("href", Whl)>>],
    [tag |-> "a", attrs |-> <<Attr("class", Whl)>>],
    [tag |-> "a", attrs |-> <<[name |-> "href", none |-> TRUE, value |-> <<>>]>>],
    [tag |-> "a", attrs |-> <<Attr("class", <<"x">>),
                              Attr("href", <<"b", ".", "w", "h", "l">>)>>],
    [tag |-> "a", attrs |-> <<Attr("href", Whl),
                              Attr("href", Whl \o <<"#", "m", "d", "5">>)>>] }

Documents == UNION { [1..n -> StartTags] : n \in 0..MaxAnchors }

VARIABLES
  html,                \* the start tags of the listing document, in order
  feed_pos,            \* the start tag feed() hands over next
  feed_pc,             \* "feeding", "done", or "failed" when feed() raised
  parser_wheel_files,  \* parser.wheel_files
  feed_error           \* the exception that left feed()

parseVars == <<html, feed_pos, feed_pc, parser_wheel_files, feed_error>>

ParseIdle ==
  /\ html = <<>> /\ feed_pos = 0 /\ feed_pc = "idle"
  /\ parser_wheel_files = <<>> /\ feed_error = "None"

\* feed() reaches the next start tag and calls handle_starttag
HandleStarttag ==
  /\ feed_pc = "feeding" /\ feed_pos <= Len(html)
  /\ LET after == handle_starttag(html[feed_pos], parser_wheel_files) IN
     /\ parser_wheel_files' = after.wheel_files
     /\ IF after.exc # "None"
        THEN feed_pc' = "failed" /\ feed_error' = after.exc /\ UNCHANGED feed_pos
        ELSE feed_pos' = feed_pos + 1 /\ UNCHANGED <<feed_pc, feed_error>>
  /\ UNCHANGED html

\* feed() returns at the end of the document
FeedReturn ==
  /\ feed_pc = "feeding" /\ feed_pos > Len(html)
  /\ feed_pc' = "done"
  /\ UNCHANGED <<html, feed_pos, parser_wheel_files, feed_error>>

----------------------------------------------------------------------------
(* Specifications *)

vars == <<tagVars, dlVars, buildVars, parseVars>>

TagInit ==
  /\ DlIdle /\ BuildIdle /\ ParseIdle
  /\ sys \in Systems /\ tag \in Tags /\ tag_result = "pending"
  /\ wheel_files = <<>> /\ version = "1.0" /\ selected = Pending

SelectInit ==
  /\ DlIdle /\ BuildIdle /\ ParseIdle
  /\ sys \in SelSystems /\ tag = AnyTag /\ tag_result = "idle"
  /\ wheel_files \in WheelLists /\ version \in Versions /\ selected = Pending

DownloadInit ==
  /\ BuildIdle /\ ParseIdle
  /\ sys \in {s \in SelSystems : s.minor = MaxMinor}
  /\ tag = AnyTag /\ tag_result = "idle"
  /\ wheel_files = <<>> /\ version = "1.0" /\ selected = Pending
  /\ config \in Configs /\ env_index \in BOOLEAN
  /\ dl_pc = "start" /\ fetch_i = 0 /\ fetch_pc = "idle"
  /\ net = <<>> /\ body = "None" /\ wheel_dir = {} /\ dl_error = NoError

BuildInit ==
  /\ TagIdle /\ DlIdle /\ ParseIdle
  /\ source_wheel \in {"whl", "tar.gz"}
  /\ metadata_bytes \in MetadataTexts
  /\ pyproject_toml \in Manifests
  /\ source_date \in SourceDates
  /\ run = 1 /\ first = NoBuild
  /\ RunFresh

\* is_compatible_tag on every tag and system
TagNext == CheckTag /\ UNCHANGED <<dlVars, buildVars, parseVars>>
TagSpec == TagInit /\ [][TagNext]_vars

\* get_compatible_wheel on every listing
SelectNext == SelectWheel /\ UNCHANGED <<dlVars, buildVars, parseVars>>
SelectSpec == SelectInit /\ [][SelectNext]_vars

\* download_wheel against an index that answers as it pleases
DownloadNext ==
  \/ DownloadStart /\ UNCHANGED <<buildVars, parseVars>>
  \/ FetchListing /\ UNCHANGED <<buildVars, parseVars>>
  \/ FetchSleep /\ UNCHANGED <<buildVars, parseVars>>
  \/ SelectCandidate /\ UNCHANGED <<buildVars, parseVars>>
  \/ FetchWheel /\ UNCHANGED <<buildVars, parseVars>>
  \/ StreamWheel /\ UNCHANGED <<buildVars, parseVars>>
DownloadSpec == DownloadInit /\ [][DownloadNext]_vars

\* the same where every urlopen and every sleep comes back: the download is
\* one sequential thread, so a step that can be taken is taken
DownloadFairSpec == DownloadSpec /\ WF_vars(DownloadNext)

\* build_sdist twice in a row
BuildNext ==
  \/ OpenArchive /\ UNCHANGED parseVars
  \/ ReadMetadata /\ UNCHANGED parseVars
  \/ DeriveStubOnly /\ UNCHANGED parseVars
  \/ AddPkgInfo /\ UNCHANGED parseVars
  \/ LoadManifest /\ UNCHANGED parseVars
  \/ AddManifest /\ UNCHANGED parseVars
  \/ BuildAgain /\ UNCHANGED parseVars
BuildSpec == BuildInit /\ [][BuildNext]_vars

ParseInit ==
  /\ TagIdle /\ DlIdle /\ BuildIdle
  /\ html \in Documents
  /\ feed_pos = 1 /\ feed_pc = "feeding"
  /\ parser_wheel_files = <<>> /\ feed_error = "None"

\* WheelFilter.feed on every listing document
ParseNext ==
  \/ HandleStarttag /\ UNCHANGED <<tagVars, dlVars, buildVars>>
  \/ FeedReturn /\ UNCHANGED <<tagVars, dlVars, buildVars>>
ParseSpec == ParseInit /\ [][ParseNext]_vars

----------------------------------------------------------------------------
(* Properties of candidate selection *)

Qualifies(w, ver, s) ==
  /\ w.ver = ver
  /\ \E t \in w.tags :
       is_compatible_tag(t, this_interp_tag_of(s), system_tags_of(s), s.minor) = "True"

FirstQualifying(wf, ver, s) ==
  IF \E i \in 1..Len(wf) : Qualifies(wf[i], ver, s)
  THEN Return(wf[CHOOSE i \in 1..Len(wf) :
                   /\ Qualifies(wf[i], ver, s)
                   /\ \A j \in 1..(i - 1) : ~Qualifies(wf[j], ver, s)])
  ELSE NoMatch

\* C1: get_compatible_wheel returns the first wheel of the listing whose
\* version is the pinned one and one of whose tags is compatible, and the
\* all-None tuple exactly when the listing holds no such wheel.
C1_FirstCompatibleWheel ==
  selected # Pending => selected = FirstQualifying(wheel_files, version, sys)

\* Whenever get_compatible_wheel does return, it returns what C1 says.
C1_ReturnsAreFirstCompatible ==
  selected.kind = "return" => selected = FirstQualifying(wheel_files, version, sys)

----------------------------------------------------------------------------
(* Properties of is_compatible_tag *)

IsCp3N(interp) == startswith(interp, cp3) /\ IsInt(SliceFrom(interp, 3))

\* C2: an abi3 tag whose interpreter is cp3N and whose platform the system
\* has is compatible exactly when N is at most the system's minor version.
C2_Abi3IffNotNewer ==
  ( /\ tag_result # "pending"
    /\ tag.abi = abi3
    /\ IsCp3N(tag.interpreter)
    /\ InSeq(tag.platform, system_tags_of(sys)) )
  => tag_result = (IF IntVal(SliceFrom(tag.interpreter, 3)) <= sys.minor
                   THEN "True" ELSE "False")

\* a cp3N-abi3 tag built for the very minor version the system runs, accepted
C2_SameMinorAccepted ==
  /\ tag_result = "True"
  /\ tag.abi = abi3
  /\ IsCp3N(tag.interpreter)
  /\ IntVal(SliceFrom(tag.interpreter, 3)) = sys.minor
  /\ sys.minor >= 10

\* the rule table: the platform gate and one of the three ABI classes
RuleTable(t, s) ==
  /\ InSeq(t.platform, system_tags_of(s))
  /\ \/ t.abi = none /\ t.interpreter \in {py3, this_interp_tag_of(s)}
     \/ t.abi = this_interp_tag_of(s) /\ t.interpreter = this_interp_tag_of(s)
     \/ /\ t.abi = abi3 /\ IsCp3N(t.interpreter)
        /\ IntVal(SliceFrom(t.interpreter, 3)) <= s.minor

\* C13: for every tag and system is_compatible_tag returns True when the
\* rule table holds of them and False when it does not; so py3-none-any is
\* compatible everywhere and a tag of any other ABI class nowhere.
C13_AgreesWithRuleTable ==
  tag_result # "pending"
    => tag_result = (IF RuleTable(tag, sys) THEN "True" ELSE "False")

\* Whenever is_compatible_tag returns, it returns what the rule table says.
C13_ReturnsAgreeWithRuleTable ==
  tag_result \in {"True", "False"}
    => tag_result = (IF RuleTable(tag, sys) THEN "True" ELSE "False")

----------------------------------------------------------------------------
(* Properties of the sdist builder *)

Terminal == b_pc \in {"done", "failed"}

\* the lines of the METADATA file, read without the parser
IsRequiresDist(line) == line[1] = "Requires-Dist"
InputHasKey(key) == \E i \in 1..Len(metadata_bytes) : metadata_bytes[i][1] = key
InputHasDirectReference ==
  \E i \in 1..Len(metadata_bytes) :
    /\ metadata_bytes[i][1] = "Requires-Dist"
    /\ \E j \in 1..Len(metadata_bytes[i][2]) : metadata_bytes[i][2][j] = "@"

\* the archive entries by what they are
PkgInfoName == Append(sdist_dir, "PKG-INFO")
ManifestName == Append(sdist_dir, "pyproject.toml")
PkgInfoEntries == { i \in 1..Len(tar) : tar[i].info.name = PkgInfoName }
ManifestEntries == { i \in 1..Len(tar) : tar[i].info.name = ManifestName }

\* DeriveStubOnly has run in this build
Derived == b_pc \in {"derived", "pkg_info", "loaded", "done"} \/ Len(tar) > 0

\* C3: stub_only is derived true exactly when some Requires-Dist value holds
\* an "@"; the PKG-INFO written then has no Requires-Dist line, and
\* otherwise has the METADATA's Requires-Dist lines, unchanged and in order.
C3_StubOnlyIffDirectReference ==
  /\ Derived => (stub_only <=> InputHasDirectReference)
  /\ \A i \in PkgInfoEntries :
       SelectSeq(tar[i].data, IsRequiresDist)
         = (IF InputHasDirectReference THEN <<>>
            ELSE SelectSeq(metadata_bytes, IsRequiresDist))

\* a finished stub build whose METADATA lists an index dependency before a
\* direct reference
C3_MixedRequiresStripped ==
  /\ b_pc = "done" /\ stub_only
  /\ Len(SelectSeq(metadata_bytes, IsRequiresDist)) = 2
  /\ ~(\E j \in 1..Len(SelectSeq(metadata_bytes, IsRequiresDist)[1][2]) :
         SelectSeq(metadata_bytes, IsRequiresDist)[1][2][j] = "@")
  /\ \A i \in PkgInfoEntries : SelectSeq(tar[i].data, IsRequiresDist) = <<>>

\* C4: no PKG-INFO the builder writes has a Platform or a
\* Supported-Platform line.
C4_NoPlatformInPkgInfo ==
  \A i \in PkgInfoEntries :
    \A k \in 1..Len(tar[i].data) :
      tar[i].data[k][1] \notin {"Platform", "Supported-Platform"}

\* a finished build's PKG-INFO, written from a METADATA that had both headers
C4_BothPlatformHeadersErased ==
  /\ b_pc = "done" /\ PkgInfoEntries # {}
  /\ InputHasKey("Platform") /\ InputHasKey("Supported-Platform")

\* what [tool.wheel_stub] of the pyproject.toml declares for stub_only
ManifestDeclares(val) ==
  LET cfg == get_config_from_pyprojecttoml(pyproject_toml) IN
  cfg.exc = "None" /\ <<"stub_only", val>> \in cfg.dict
ManifestDeclaresNothing ==
  LET cfg == get_config_from_pyprojecttoml(pyproject_toml) IN
  cfg.exc = "None" /\ ~\E kv \in cfg.dict : kv[1] = "stub_only"

\* C5: a build that derives stub_only while pyproject.toml declares
\* stub_only = false ends in the conflicting-declaration error, with no
\* pyproject.toml in the archive.
C5_ConflictingDeclarationFails ==
  (Terminal /\ stub_only /\ ManifestDeclares("false"))
    => (b_pc = "failed" /\ b_error = ConflictingStub /\ ManifestEntries = {})

\* C6: a build that derives stub_only while pyproject.toml declares
\* stub_only = true writes pyproject.toml into the archive as it is.
C6_DeclaredTrueWrittenUnchanged ==
  (b_pc = "done" /\ stub_only /\ ManifestDeclares("true"))
    => \A i \in ManifestEntries : tar[i].data = pyproject_toml

\* C7: a build that derives stub_only while pyproject.toml declares nothing
\* writes pyproject.toml with the declaration appended, and
\* [tool.wheel_stub] read back from what it wrote has stub_only = true.
C7_AppendedDeclarationReadsBack ==
  (b_pc = "done" /\ stub_only /\ ManifestDeclaresNothing)
    => /\ ManifestEntries # {}
       /\ \A i \in ManifestEntries :
            /\ tar[i].data = pyproject_toml \o StubOnlySuffix
            /\ LET cfg == get_config_from_pyprojecttoml(tar[i].data) IN
               cfg.exc = "None" /\ <<"stub_only", "true">> \in cfg.dict

\* The bytes written are the original with the suffix appended, in each
\* such build.
C7_DeclarationAppended ==
  (b_pc = "done" /\ stub_only)
    => \A i \in ManifestEntries : tar[i].data = pyproject_toml \o StubOnlySuffix

\* what a build leaves on disk
SameArchive == tar = first.tar /\ gz = first.gz

\* C8: the second build of the same METADATA, identifier and pyproject.toml
\* bytes under the same SOURCE_DATE_EPOCH leaves the archive the first left.
C8_SameInputsSameArchive ==
  (run = 2 /\ Terminal) => SameArchive

\* C8, amended: the second build of the same METADATA, identifier and
\* pyproject.toml bytes under the same SOURCE_DATE_EPOCH leaves the archive
\* the first left, provided pyproject.toml has the same owner-execute
\* permission bit in both builds (its owner, group and modification time
\* may differ).
C8_SameInputsAndExecBitSameArchive ==
  (run = 2 /\ Terminal /\ OwnerExec(file_stat.mode) = OwnerExec(first.stat.mode))
    => SameArchive

\* two finished builds that saw pyproject.toml with another owner and
\* another modification time, and left the same three entries
C8_SameArchiveDespiteStat ==
  /\ run = 2 /\ b_pc = "done" /\ Len(tar) = 3
  /\ file_stat.uid # first.stat.uid /\ file_stat.mtime # first.stat.mtime
  /\ OwnerExec(file_stat.mode) /\ OwnerExec(first.stat.mode)
  /\ ~stub_only
  /\ SameArchive

MissingRequired ==
  ~InputHasKey("Name") \/ ~InputHasKey("Version") \/ ~InputHasKey("License")

\* the build got as far as reading METADATA out of a wheel
MetadataRead ==
  /\ source_wheel = "whl"
  /\ b_pc \notin {"start", "opened"}
  /\ b_error # "ValueError"

\* C9: a build whose METADATA lacks Name, Version or License never
\* completes; once the METADATA has been read it has failed with the
\* AssertionError of assert_valid_metadata, the METADATA text is what it
\* printed, and the archive has no entry.
C9_InvalidMetadataFails ==
  MissingRequired =>
    /\ b_pc # "done"
    /\ MetadataRead =>
         /\ b_pc = "failed" /\ b_error = "AssertionError"
         /\ stderr = <<metadata_bytes>>
         /\ tar = <<>>

\* a build failed over a METADATA that lacks only its License
C9_MissingLicenseRejected ==
  /\ b_pc = "failed" /\ b_error = "AssertionError"
  /\ InputHasKey("Name") /\ InputHasKey("Version") /\ ~InputHasKey("License")
  /\ stderr = <<metadata_bytes>>

\* the single seed: SOURCE_DATE_EPOCH when set, else the fixed date
Seed == IF source_date.set THEN IntVal(source_date.text) ELSE 733993200

\* the file an archive entry was made from was executable: only the
\* pyproject.toml entry is made from a file
SourceExecutable(entry) ==
  entry.info.name = ManifestName /\ OwnerExec(file_stat.mode)

\* owner, group and timestamp of an entry are the normalized ones
OwnerAndTimeNormalized(entry) ==
  /\ entry.info.uid = 0 /\ entry.info.gid = 0
  /\ entry.info.uname = "" /\ entry.info.gname = ""
  /\ entry.info.mtime = Seed /\ gz = Seed

\* C15: every entry in the archive has uid = gid = 0, empty owner and group
\* names, the seed as its timestamp (the seed the compressor got too), and
\* mode 0775 if it is a directory, 0755 if the file it was made from was
\* executable, 0644 otherwise.
C15_EveryEntryNormalized ==
  \A i \in 1..Len(tar) :
    /\ OwnerAndTimeNormalized(tar[i])
    /\ tar[i].info.mode =
         (IF tar[i].info.type = "DIRTYPE" THEN 509
          ELSE IF SourceExecutable(tar[i]) THEN 493 ELSE 420)

\* What does hold: owner, group and timestamp are normalized in every
\* entry, and the mode is as stated in every entry but a pyproject.toml
\* written with the declaration appended.
C15_NormalizedButAppendedMode ==
  \A i \in 1..Len(tar) :
    /\ OwnerAndTimeNormalized(tar[i])
    /\ tar[i].data # pyproject_toml \o StubOnlySuffix
         => tar[i].info.mode =
              (IF tar[i].info.type = "DIRTYPE" THEN 509
               ELSE IF SourceExecutable(tar[i]) THEN 493 ELSE 420)

\* the manifest has been loaded and reconciled with the derived stub_only
Reconciled == b_pc \in {"loaded", "done"}

\* C16: the archive gets its first entry only after the metadata has been
\* validated, stub_only derived and the manifest loaded and reconciled; so
\* a build that ends in the missing-section error or in the
\* conflicting-declaration error leaves an archive without entries.
C16_NoEntryBeforeReconciliation ==
  /\ tar # <<>> => (Reconciled \/ (b_pc = "failed" /\ b_error = ConflictingStub))
  /\ (b_pc = "failed" /\ b_error \in {MissingSection, ConflictingStub})
       => tar = <<>>

\* What does hold: no entry is written before the metadata has been
\* validated and stub_only derived.
C16_NoEntryBeforeDerivation ==
  tar # <<>> => b_pc \notin {"start", "opened", "validated", "derived"}

----------------------------------------------------------------------------
(* Properties of the download *)

\* C10: an urlopen that ends in an HTTPError is the last network event of
\* the download: no sleep and no further urlopen follows it.
C10_HttpErrorNotRetried ==
  \A k \in 1..Len(net) : net[k].outcome = "HTTPError" => k = Len(net)

\* one call of urlopen_with_retry is the run of events of one url
Failed(e)  == e.ev = "urlopen" /\ e.outcome # "ok"
Retried(e) == Failed(e) /\ Catches("URLError", e.outcome)

\* the events of net obey the retry loop
RetryDiscipline ==
  \A k \in 1..Len(net) :
    LET e == net[k] IN
    \* at most 4 attempts, numbered from 1 within a call
    /\ e.ev = "urlopen" => e.i \in 1..4
    /\ (e.ev = "urlopen" /\ e.i > 1)
         => /\ k > 2 /\ net[k - 1].ev = "sleep"
            /\ net[k - 2].ev = "urlopen" /\ net[k - 2].url = e.url
            /\ net[k - 2].i = e.i - 1
    \* a response ends the call: what follows belongs to the next url
    /\ (e.ev = "urlopen" /\ e.outcome = "ok" /\ k < Len(net))
         => net[k + 1].ev = "urlopen" /\ net[k + 1].i = 1
            /\ net[k + 1].url # e.url
    \* a sleep follows a failed attempt that was not the 4th, lasts 1.2**i
    \* and so 1.2 times the sleep before it
    /\ e.ev = "sleep"
         => /\ k > 1 /\ Failed(net[k - 1]) /\ net[k - 1].i = e.i
            /\ e.i < 4
            /\ e.delay = backoff(e.i)
            /\ k > 2 /\ net[k - 2].ev = "sleep"
                 => 10 * e.delay = 12 * net[k - 2].delay
    \* the 4th failure, and a failure that is not URLError, is raised
    /\ (Failed(e) /\ (e.i = 4 \/ ~Retried(e)))
         => /\ k = Len(net) /\ dl_pc = "failed"
            /\ dl_error.context = download_manual_reraise(e.outcome)

\* a call that raised a URLError had made all its 4 attempts, and the
\* download goes on only with a response
RaisedAfterLastAttempt ==
  /\ (dl_pc = "failed" /\ dl_error.context = "URLError")
       => /\ Len(net) >= 7
          /\ net[Len(net)].i = 4 /\ net[Len(net)].outcome = "URLError"
  /\ dl_pc \in {"select", "fetch_wheel", "stream", "done"}
       => \E k \in 1..Len(net) :
            net[k].url = "project_url" /\ net[k].outcome = "ok"
  /\ dl_pc \in {"stream", "done"}
       => net[Len(net)].url = "wheel_url" /\ net[Len(net)].outcome = "ok"

\* C14: every call of urlopen_with_retry ends; it makes at most 4 attempts,
\* returns on the first response without a further attempt, sleeps 1.2**i
\* only between a failed attempt and the next one, raises the URLError of
\* the 4th attempt when all 4 failed, and never returns without a response.
C14_BoundedRetryTerminates ==
  /\ [](RetryDiscipline /\ RaisedAfterLastAttempt)
  /\ (dl_pc = "fetch_listing") ~> (dl_pc # "fetch_listing")
  /\ (dl_pc = "fetch_wheel") ~> (dl_pc # "fetch_wheel")

\* the listing was asked for 4 times with 3 growing sleeps in between, and
\* the 4th URLError was raised
C14_FourthFailureRaised ==
  /\ dl_pc = "failed" /\ dl_error.context = "URLError"
  /\ Len(net) = 7
  /\ \A k \in {1, 3, 5, 7} : net[k].outcome = "URLError"
  /\ net[2].delay < net[4].delay /\ net[4].delay < net[6].delay

\* the exceptions download_manual raises when the fetch of the listing or of
\* the wheel fails
DownloadFailures ==
  { download_manual_reraise(outcome) : outcome \in FetchOutcomes \ {"ok"} }

\* the wheel was streamed through a hash and its digest is not the declared
HashMismatch ==
  /\ selected.kind = "return"
  /\ selected.hash.scheme \in HashlibNames
  /\ body # "None"
  /\ hexdigest(body) # selected.hash.digest

\* C11: a download whose wheel does not hash to the declared digest fails,
\* and the error that leaves download_wheel then is of a type that no failed
\* fetch of the listing or of the wheel leaves under the same configuration.
C11_MismatchDistinctFromDownloadFailure ==
  /\ (HashMismatch /\ dl_pc \notin {"fetch_wheel", "stream"}) => dl_pc = "failed"
  /\ (HashMismatch /\ dl_pc = "failed")
       => \A exc \in DownloadFailures :
            report_install_failure(config, exc).type # dl_error.type

\* What does hold: a wheel that does not hash to the declared digest never
\* ends the download successfully.
C11_MismatchNeverDone ==
  HashMismatch => dl_pc # "done"

\* download_wheel made no request, selected nothing and wrote nothing
NothingFetched ==
  /\ net = <<>> /\ wheel_files = <<>> /\ selected = Pending
  /\ body = "None" /\ wheel_dir = {}

\* C17: with stub_only true in the loaded [tool.wheel_stub], download_wheel
\* ends in the InstallFailedError of report_install_failure, without a
\* request for the listing, a selection or a download, and with nothing
\* written to the wheel directory.
C17_StubOnlyEndsInInstallFailure ==
  (StubOnlyTruthy(config) /\ dl_pc # "start")
    => /\ dl_pc = "failed"
       /\ dl_error = [type |-> "InstallFailedError", context |-> "None"]
       /\ NothingFetched

\* What does hold: with stub_only true download_wheel fails at once and
\* fetches nothing.
C17_StubOnlyFetchesNothing ==
  (StubOnlyTruthy(config) /\ dl_pc # "start")
    => dl_pc = "failed" /\ dl_error.context = "None" /\ NothingFetched

----------------------------------------------------------------------------
(* Properties of the listing parser *)

\* the anchors of a start tag that are wheels with a well-formed URL and
\* fragment, as entries, in order
WheelAnchors(start) ==
  LET G[j \in 0..Len(start.attrs)] ==
        IF j = 0 THEN <<>>
        ELSE LET attr  == start.attrs[j]
                 found == handle_href(attr.value)
             IN  IF /\ start.tag = "a" /\ attr.name = "href" /\ ~attr.none
                    /\ found.exc = "None" /\ found.found
                 THEN Append(G[j - 1], Entry(found))
                 ELSE G[j - 1]
  IN  G[Len(start.attrs)]

\* the same over a whole document
WheelAnchorsOf(doc) ==
  LET F[i \in 0..Len(doc)] ==
        IF i = 0 THEN <<>> ELSE F[i - 1] \o WheelAnchors(doc[i])
  IN  F[Len(doc)]

\* C12: feed() never raises, and when it has returned parser.wheel_files
\* holds exactly the well-formed wheel anchors of the document, in document
\* order, every other anchor having been skipped.
C12_MalformedAnchorsSkipped ==
  /\ feed_pc # "failed"
  /\ feed_pc = "done" => parser_wheel_files = WheelAnchorsOf(html)

\* What does hold: whenever feed() returns, parser.wheel_files is the
\* well-formed wheel anchors in document order.
C12_ReturnedInDocumentOrder ==
  feed_pc = "done" => parser_wheel_files = WheelAnchorsOf(html)

====
